---- MODULE Spec2Model ----
(***************************************************************************)
(* A state-machine model of datalad_catalog/catalog.py: the add run        *)
(* (_add_to_catalog) over the process-wide node registry Node._instances   *)
(* and the persisted node documents of one catalog.                        *)
(*                                                                         *)
(* A Python dict (vars(inst), Node._instances, the metadata directory) is  *)
(* a function whose DOMAIN is the set of keys present: hasattr(o, k) is    *)
(* k \in DOMAIN o and dict.pop(k, None) removes k from the domain.         *)
(***************************************************************************)
EXTENDS Integers, Sequences, FiniteSets, TLC

\* Bound of the model: the lines read over all the add runs of a history.
MaxLines == 4

----------------------------------------------------------------------------
\* Python dicts.

EmptyDict == [k \in {} |-> ""]

Has(d, k) == k \in DOMAIN d

Put(d, k, v) == [x \in (DOMAIN d) \cup {k} |-> IF x = k THEN v ELSE d[x]]

Pop(d, ks) == [x \in (DOMAIN d) \ ks |-> d[x]]

\* d.update(e): the keys of e win.
UpdateDict(d, e) ==
    [x \in (DOMAIN d) \cup (DOMAIN e) |-> IF x \in DOMAIN e THEN e[x] ELSE d[x]]

Contains(s, x) == \E n \in 1..Len(s) : s[n] = x

\* list union that keeps order: append x unless it is already listed.
AppendNew(s, x) == IF Contains(s, x) THEN s ELSE Append(s, x)

----------------------------------------------------------------------------
\* The catalog, the entities of one dataset and their identity keys.

Catalog == "c1"
DatasetId == "d1"
DatasetVersion == "v1"

\* Entities by relative path; "" is the dataset itself.
Entities == {"", "a", "a/f1", "a/f2"}

TypeOf(e) ==
    CASE e = "" -> "dataset"
      [] e = "a" -> "directory"
      [] OTHER -> "file"

\* The ancestor directories of a path, outermost first.
Ancestors(e) == IF e \in {"a/f1", "a/f2"} THEN <<"a">> ELSE <<>>

\* pathlib's Path.name: the last segment.
PathName(e) ==
    CASE e = "a/f1" -> "f1"
      [] e = "a/f2" -> "f2"
      [] OTHER -> e

LongName(e) == IF e = "" THEN "d1-v1" ELSE "d1-v1-" \o e

\* The identity key: a hash of (dataset id, version, path); distinct
\* entities get distinct hashes.
Md5(e) ==
    CASE e = "" -> "h0"
      [] e = "a" -> "h1"
      [] e = "a/f1" -> "h2"
      [] e = "a/f2" -> "h3"

Keys == {Md5(e) : e \in Entities}

\* The storage location of a node: derived from its identity key only.
Location(key) == <<"metadata", DatasetId, DatasetVersion, key>>

----------------------------------------------------------------------------
\* Input lines.  Every line of the file is JSON text; a line stands for the
\* value json.loads makes of it.
\*   json   : "object" for a dict, "other" for any other JSON value: here
\*            a JSON array that holds one record, whose entity, attributes
\*            and parent the other components give
\*   ok     : whether the value passes the catalog schema
\*   ent    : the entity an object describes
\*   fields : its descriptive attributes
\*   parent : an explicit parent catalog ("absent" when there is none)

Rec(json, ok, ent, fields, parent) ==
    [json |-> json, ok |-> ok, ent |-> ent, fields |-> fields, parent |-> parent]

Records ==
    { Rec("object", TRUE, "", [description |-> "x"], "absent"),
      Rec("object", TRUE, "", [size |-> "10"], "absent"),
      Rec("object", TRUE, "a/f1", [size |-> "5"], Catalog),
      Rec("object", TRUE, "a/f2", EmptyDict, "None"),
      Rec("object", FALSE, "", EmptyDict, "absent"),
      Rec("other", TRUE, "", [size |-> "10"], "absent"),
      Rec("other", FALSE, "", [size |-> "10"], "absent") }

----------------------------------------------------------------------------
\* State.
\*   instances   Node._instances: the registry of live nodes, by identity key
\*   order       its insertion order (a dict iterates in insertion order)
\*   disk        the node documents of the catalog, by storage location
\*   pc          where the call at hand stands
\*   inp, i      the metadata file of the run, as far as it has been read,
\*               and the line counter
\*   again       the run reads the file of the run before it once more
\*   afterFirst  that run before it ingested the file into an empty catalog
\*   meta_dict   the parsed line at hand
\*   todo        the nodes the flush loop has still to visit
\*   err         the exception that ended the run
\*   log         what the run did, in order
\*   diskAtStart the documents when the run began
\*   total       lines read so far, over all runs
\*   cat         what is at the catalog directory: nothing ("absent"), a
\*               directory that is no catalog ("noncatalog"), a catalog
\*   call        the call of the command at hand: its action, the arguments
\*               the action reads, and the action function it reached
\*   folders     the directories made for node documents
\*   vinp        the metadata file of a validate call, as far as read

VARIABLES instances, order, disk, pc, inp, i, meta_dict, todo, err, log,
          diskAtStart, total, again, afterFirst, cat, call, folders, vinp

vars == <<instances, order, disk, pc, inp, i, meta_dict, todo, err, log,
          diskAtStart, total, again, afterFirst, cat, call, folders, vinp>>

NoLine == Rec("none", FALSE, "", EmptyDict, "absent")
NoErr == [kind |-> "none", line |-> 0]
Event(op, line, key) == [op |-> op, line |-> line, key |-> key]

\* A call: catalog_action, whether catalog_dir, metadata and both of
\* dataset_id and dataset_version were supplied, the force flag, and the
\* action function the dispatch reached ("none": it raised before any).
\* An argument the action does not read is left FALSE.
Call(action, dir, force, meta, ids, ran) ==
    [action |-> action, dir |-> dir, force |-> force, meta |-> meta, ids |-> ids,
     ran |-> ran]

NoCall == Call("none", FALSE, FALSE, FALSE, FALSE, "none")
AddCall == Call("add", TRUE, FALSE, TRUE, FALSE, "add")

Init ==
    /\ instances = EmptyDict
    /\ order = <<>>
    /\ disk = EmptyDict
    /\ pc = "idle"
    /\ inp = <<>>
    /\ i = 0
    /\ meta_dict = NoLine
    /\ todo = <<>>
    /\ err = NoErr
    /\ log = <<>>
    /\ diskAtStart = EmptyDict
    /\ total = 0
    /\ again = FALSE
    /\ afterFirst = FALSE
    /\ cat \in {"absent", "noncatalog"}
    /\ call = NoCall
    /\ folders = {}
    /\ vinp = <<>>

Ended == pc \in {"idle", "done", "failed"}

----------------------------------------------------------------------------
\* Translation of a validated record into nodes.

\* A freshly constructed node: identity, bookkeeping fields, and an empty
\* children list for a dataset or a directory.
NewNode(e, parent) ==
    LET base == [type |-> TypeOf(e),
                 dataset_id |-> DatasetId,
                 dataset_version |-> DatasetVersion,
                 node_path |-> IF e = "" THEN "None" ELSE e,
                 long_name |-> LongName(e),
                 md5_hash |-> Md5(e),
                 file_name |-> "None"]
        kids == IF TypeOf(e) = "file" THEN base ELSE Put(base, "children", <<>>)
    IN IF parent = "absent" THEN kids ELSE Put(kids, "parent_catalog", parent)

\* get-or-create: the registry holds at most one node per identity key.
GetOrCreate(reg, e, parent) ==
    IF Has(reg, Md5(e)) THEN reg ELSE Put(reg, Md5(e), NewNode(e, parent))

\* The same, with a second entry made for a key that has one.
NoteCreatedTwice(ord, e) == Append(ord, Md5(e))

NoteCreated(ord, e) == AppendNew(ord, Md5(e))

\* Each ancestor directory is looked up (or synthesized) and gets the
\* descendant added to its children.
RECURSIVE WithAncestors(_, _, _)
WithAncestors(reg, dirs, child) ==
    IF dirs = <<>> THEN reg
    ELSE LET d == dirs[Len(dirs)]
             r1 == GetOrCreate(reg, d, "absent")
             n1 == r1[Md5(d)]
             n2 == Put(n1, "children",
                       AppendNew(IF Has(n1, "children") THEN n1["children"] ELSE <<>>,
                                 Md5(child)))
         IN WithAncestors(Put(r1, Md5(d), n2), SubSeq(dirs, 1, Len(dirs) - 1), d)

RECURSIVE OrderWithAncestors(_, _)
OrderWithAncestors(ord, dirs) ==
    IF dirs = <<>> THEN ord
    ELSE OrderWithAncestors(NoteCreated(ord, dirs[Len(dirs)]), SubSeq(dirs, 1, Len(dirs) - 1))

\* MetaItem(catalog, meta_dict): the record's own node is created or
\* updated additively (the record's fields overwrite, the others stay),
\* then its ancestors.  A value that is no object describes no entity.
MetaItem(reg, rec) ==
    IF rec.json # "object" THEN reg
    ELSE LET r1 == GetOrCreate(reg, rec.ent, rec.parent)
             r2 == Put(r1, Md5(rec.ent), UpdateDict(r1[Md5(rec.ent)], rec.fields))
         IN WithAncestors(r2, Ancestors(rec.ent), rec.ent)

MetaItemOrder(ord, rec) ==
    IF rec.json # "object" THEN ord
    ELSE OrderWithAncestors(NoteCreated(ord, rec.ent), Ancestors(rec.ent))

----------------------------------------------------------------------------
\* Catalog.__call__: the checks made before an action function is called.

Actions == {"create", "serve", "add", "remove", "set-super"}

\* if catalog_dir is None: raise InsufficientArgumentsError
DirError(dir) == IF ~dir THEN "InsufficientArgumentsError" ELSE "none"

\* if ctlg.path_exists() and not ctlg.is_created(): raise FileExistsError
ExistsError(c) == IF c = "noncatalog" THEN "FileExistsError" ELSE "none"

\* The same, with every action let through.
NotCreatedErrorNever(action, c) == "none"

\* if not ctlg.is_created(): if catalog_action != "create": raise
NotCreatedError(action, c) ==
    IF c # "created" /\ action # "create" THEN "InsufficientArgumentsError" ELSE "none"

\* The same, with the force flag not looked at.
AlreadyCreatedErrorNever(action, force, c) == "none"

\* else: if catalog_action == "create": if not force: raise
AlreadyCreatedError(action, force, c) ==
    IF c = "created" /\ action = "create" /\ ~force
    THEN "InsufficientArgumentsError"
    ELSE "none"

\* The first check that raises, in the order of the code.
DispatchError(action, dir, force, c) ==
    IF DirError(dir) # "none" THEN DirError(dir)
    ELSE IF ExistsError(c) # "none" THEN ExistsError(c)
    ELSE IF NotCreatedError(action, c) # "none" THEN NotCreatedError(action, c)
    ELSE AlreadyCreatedError(action, force, c)

\* What every call starts from: the locals of the call before it are gone.
FreshCall ==
    /\ inp' = <<>>
    /\ vinp' = <<>>
    /\ i' = 0
    /\ meta_dict' = NoLine
    /\ todo' = <<>>
    /\ diskAtStart' = disk
    /\ again' = FALSE
    /\ afterFirst' = FALSE

----------------------------------------------------------------------------
\* _add_to_catalog, step by step.

\* The call on a metadata file: open(metadata), i = 0.  The lines of the
\* file are drawn as the loop reads them.
StartAdd ==
    /\ Ended \/ (pc = "created" /\ call.meta)
    /\ DispatchError("add", TRUE, FALSE, cat) = "none"
    /\ vinp' = <<>>
    /\ total < MaxLines
    /\ call' = AddCall
    /\ inp' = <<>>
    /\ again' = FALSE
    /\ afterFirst' = FALSE
    /\ pc' = "read"
    /\ i' = 0
    /\ meta_dict' = NoLine
    /\ todo' = <<>>
    /\ err' = NoErr
    /\ log' = <<>>
    /\ diskAtStart' = disk
    /\ UNCHANGED <<cat, folders, instances, order, disk, total>>

\* The call on the metadata file of the run before, which ran to its end.
StartAddAgain ==
    /\ pc = "done"
    /\ total < MaxLines
    /\ again' = TRUE
    /\ afterFirst' = (~again /\ diskAtStart = EmptyDict)
    /\ pc' = "read"
    /\ i' = 0
    /\ meta_dict' = NoLine
    /\ todo' = <<>>
    /\ err' = NoErr
    /\ log' = <<>>
    /\ diskAtStart' = disk
    /\ UNCHANGED <<vinp, cat, call, folders, instances, order, disk, inp, total>>

\* i += 1; meta_dict = json.loads(line.rstrip()); a value that is no dict
\* is warned about, and the loop body goes on with it.
TakeLine(line) ==
    /\ i' = i + 1
    /\ total' = total + 1
    /\ meta_dict' = line
    /\ log' = IF line.json # "object"
              THEN Append(log, Event("warning", i + 1, ""))
              ELSE log
    /\ pc' = "validate"

\* for line in file
ReadLine ==
    /\ pc = "read"
    /\ total < MaxLines
    /\ IF again
       THEN /\ i < Len(inp)
            /\ TakeLine(inp[i + 1])
            /\ inp' = inp
       ELSE \E line \in Records :
               /\ TakeLine(line)
               /\ inp' = Append(inp, line)
    /\ UNCHANGED <<vinp, cat, call, folders, instances, order, disk, todo, err, diskAtStart, again, afterFirst>>

\* The same, with the line counted from 0.
RaiseValidationErrorZeroBased ==
    /\ pc' = "failed"
    /\ err' = [kind |-> "ValidationError", line |-> i - 1]
    /\ log' = Append(log, Event("validate", i, ""))

\* raise ValidationError("Schema validation failed in LINE {i}") from e
RaiseValidationError ==
    /\ pc' = "failed"
    /\ err' = [kind |-> "ValidationError", line |-> i]
    /\ log' = Append(log, Event("validate", i, ""))

\* catalog.VALIDATOR.validate(meta_dict)
Validate ==
    /\ pc = "validate"
    /\ IF meta_dict.ok
       THEN /\ pc' = "translate"
            /\ log' = Append(log, Event("validate", i, ""))
            /\ err' = err
       ELSE RaiseValidationError
    /\ UNCHANGED <<vinp, cat, call, folders, instances, order, disk, inp, i, meta_dict, todo, diskAtStart,
                   total, again, afterFirst>>

\* MetaItem(catalog, meta_dict)
Translate ==
    /\ pc = "translate"
    /\ instances' = MetaItem(instances, meta_dict)
    /\ order' = MetaItemOrder(order, meta_dict)
    /\ log' = Append(log, Event("translate", i, ""))
    /\ pc' = "read"
    /\ UNCHANGED <<vinp, cat, call, folders, disk, inp, i, meta_dict, todo, err, diskAtStart, total, again,
                   afterFirst>>

\* The same, with the flush loop begun at once.
EndOfInputThenFlush ==
    /\ pc = "read"
    /\ i = Len(inp)
    /\ i >= 1
    /\ pc' = "flush"
    /\ todo' = order
    /\ UNCHANGED <<vinp, cat, call, folders, instances, order, disk, inp, i, meta_dict, err, log,
                   diskAtStart, total, again, afterFirst>>

\* The file is exhausted (it holds at least one line).
EndOfInput ==
    /\ pc = "read"
    /\ i = Len(inp)
    /\ i >= 1
    /\ pc' = "link"
    /\ UNCHANGED <<vinp, cat, call, folders, instances, order, disk, inp, i, meta_dict, todo, err, log,
                   diskAtStart, total, again, afterFirst>>

\* The registry entries without a parent_catalog attribute, or with a
\* falsy one.
Orphans(reg) ==
    {k \in DOMAIN reg : ~Has(reg[k], "parent_catalog") \/ reg[k]["parent_catalog"] = "None"}

\* for orphan in orphans: orphan.parent_catalog = catalog
SetParentCatalog(reg) ==
    [k \in DOMAIN reg |->
        IF k \in Orphans(reg) THEN Put(reg[k], "parent_catalog", Catalog) ELSE reg[k]]

LinkOrphans ==
    /\ pc = "link"
    /\ instances' = SetParentCatalog(instances)
    /\ log' = Append(log, Event("link", 0, ""))
    /\ todo' = order
    /\ pc' = "flush"
    /\ UNCHANGED <<vinp, cat, call, folders, order, disk, inp, i, meta_dict, err, diskAtStart, total, again,
                   afterFirst>>

----------------------------------------------------------------------------
\* Files.  A node document is stored as the sequence of its <<key, value>>
\* members; json.dump writes the members of the dict one after the other
\* (here in one fixed key order).

KeyOrder ==
    <<"type", "dataset_id", "dataset_version", "node_path", "long_name",
      "md5_hash", "file_name", "children", "parent_catalog", "path", "name",
      "description", "size">>

RECURSIVE DumpFrom(_, _)
DumpFrom(d, n) ==
    IF n > Len(KeyOrder) THEN <<>>
    ELSE IF Has(d, KeyOrder[n])
         THEN <<<<KeyOrder[n], d[KeyOrder[n]]>>>> \o DumpFrom(d, n + 1)
         ELSE DumpFrom(d, n + 1)

\* json.dump(d, f), as the text written.
JsonDump(d) == DumpFrom(d, 1)

\* f.write(text) at position 0 of a file opened "r+": the text replaces the
\* first Len(text) members and what lies beyond them stays.
WriteAtStart(old, text) ==
    IF Len(old) > Len(text) THEN text \o SubSeq(old, Len(text) + 1, Len(old)) ELSE text

\* The same, with the file left as long as it is.
TruncateNot(content, pos) == content

\* f.truncate(): cut the file at the current position.
Truncate(content, pos) == SubSeq(content, 1, pos)

\* open(fn, "w"); json.dump(vars(inst), f)
WriteNew(doc) == JsonDump(doc)

\* open(fn, "r+"); f.seek(0); json.dump(vars(inst), f); f.truncate()
Rewrite(old, doc) == Truncate(WriteAtStart(old, JsonDump(doc)), Len(JsonDump(doc)))

\* inst.is_created(): a file exists at the node's location.
IsCreated(d, fn) == Has(d, fn)

----------------------------------------------------------------------------
\* The flush loop of _add_to_catalog: for blob in Node._instances.

\* setattr(inst, "path", str(inst.node_path)) for every node but a dataset,
\* setattr(inst, "name", inst.node_path.name) for a directory.
SetPathAndName(inst) ==
    LET withPath == IF Has(inst, "node_path") /\ inst["type"] # "dataset"
                    THEN Put(inst, "path", inst["node_path"])
                    ELSE inst
    IN IF Has(inst, "node_path") /\ inst["type"] = "directory"
       THEN Put(withPath, "name", PathName(inst["node_path"]))
       ELSE withPath

\* The list with one key forgotten.
keys_to_pop_short == {"node_path", "long_name", "file_name", "parent_catalog"}

keys_to_pop == {"node_path", "long_name", "md5_hash", "file_name", "parent_catalog"}

\* meta_dict = vars(inst); for key in keys_to_pop: meta_dict.pop(key, None).
\* vars(inst) is the node's own attribute dict: the node loses the keys.
PopKeys(inst) == Pop(inst, keys_to_pop)

\* The node as the flush leaves it, which is also the document written.
Flushed(inst) == PopKeys(SetPathAndName(inst))

\* The write of one node document.
WriteNode(d, fn, doc) ==
    IF ~IsCreated(d, fn) THEN Put(d, fn, WriteNew(doc)) ELSE Put(d, fn, Rewrite(d[fn], doc))

\* inst.get_location().parents[0], with the directories above it.
ParentDirs(fn) == {SubSeq(fn, 1, n) : n \in 1..(Len(fn) - 1)}

\* if not created: parent_path.mkdir(parents=True, exist_ok=True)
MkDirs(made, d, fn) == IF ~IsCreated(d, fn) THEN made \cup ParentDirs(fn) ELSE made

\* One iteration: the node's location is computed, the node is stripped and
\* its document written.  A node that has lost its md5_hash in an earlier
\* flush has its key recomputed from the identity fields it still holds.
FlushNode ==
    /\ pc = "flush"
    /\ todo # <<>>
    /\ LET blob == Head(todo)
           inst == instances[blob]
           fn == Location(blob)
       IN /\ instances' = Put(instances, blob, Flushed(inst))
          /\ folders' = MkDirs(folders, disk, fn)
          /\ disk' = WriteNode(disk, fn, Flushed(inst))
          /\ log' = Append(log, Event("write", 0, blob))
    /\ todo' = Tail(todo)
    /\ UNCHANGED <<vinp, cat, call, order, pc, inp, i, meta_dict, err, diskAtStart, total, again,
                   afterFirst>>

\* mkdir or open raises OSError: nothing catches it, the run ends there.
\* The node at hand has been stripped already; when it is open that
\* raises, the directories have been made.
FlushIOError ==
    /\ pc = "flush"
    /\ todo # <<>>
    /\ LET blob == Head(todo)
       IN /\ instances' = Put(instances, blob, Flushed(instances[blob]))
          /\ folders' \in {folders, MkDirs(folders, disk, Location(blob))}
          /\ err' = [kind |-> "OSError", line |-> 0]
          /\ log' = Append(log, Event("ioerror", 0, blob))
    /\ pc' = "failed"
    /\ UNCHANGED <<vinp, cat, call, order, disk, inp, i, meta_dict, todo, diskAtStart, total, again,
                   afterFirst>>

\* get_location() on a node without md5_hash may instead raise.
FlushAttributeError ==
    /\ pc = "flush"
    /\ todo # <<>>
    /\ ~Has(instances[Head(todo)], "md5_hash")
    /\ err' = [kind |-> "AttributeError", line |-> 0]
    /\ pc' = "failed"
    /\ UNCHANGED <<vinp, cat, call, folders, instances, order, disk, inp, i, meta_dict, todo, log,
                   diskAtStart, total, again, afterFirst>>

\* The loop is over: yield the ok result.
FinishAdd ==
    /\ pc = "flush"
    /\ todo = <<>>
    /\ pc' = "done"
    /\ log' = Append(log, Event("ok", 0, ""))
    /\ UNCHANGED <<vinp, cat, call, folders, instances, order, disk, inp, i, meta_dict, todo, err,
                   diskAtStart, total, again, afterFirst>>

\* A new Python process: the class attribute Node._instances starts empty.
NewProcess ==
    /\ Ended
    /\ instances # EmptyDict
    /\ instances' = EmptyDict
    /\ order' = <<>>
    /\ UNCHANGED <<vinp, cat, call, folders, disk, pc, inp, i, meta_dict, todo, err, log, diskAtStart, total,
                   again, afterFirst>>

----------------------------------------------------------------------------
\* The other calls.  A call is made when the one before it has returned
\* and its outcome has been taken (Return).

\* The nodes, the documents and the catalog directory stay as they are.
Untouched == UNCHANGED <<instances, order, disk, cat, folders, total>>

\* One of the checks of __call__ raises: no action function is called.
CallRejected ==
    /\ pc = "idle"
    /\ \E action \in Actions, dir \in BOOLEAN, force \in BOOLEAN :
          /\ force => action = "create" /\ dir
          /\ DispatchError(action, dir, force, cat) # "none"
          /\ call' = Call(action, dir, force, FALSE, FALSE, "none")
          /\ err' = [kind |-> DispatchError(action, dir, force, cat), line |-> 0]
    /\ pc' = "failed"
    /\ FreshCall
    /\ log' = <<>>
    /\ Untouched

\* The step of _create_catalog that is taken: catalog.create() when there
\* is no catalog, catalog.create(force) when there is one and force is set.
CreateStep(c, force) ==
    IF c # "created" THEN "create" ELSE IF force THEN "overwrite" ELSE "none"

\* catalog.create() makes the catalog; catalog.create(force) writes its
\* assets anew and leaves the metadata directory alone.
AfterCreate(c, force) == IF CreateStep(c, force) = "none" THEN c ELSE "created"

\* _create_catalog up to its status result; with metadata supplied the
\* call goes on in _add_to_catalog (StartAdd).
CallCreate ==
    /\ pc = "idle"
    /\ \E force \in BOOLEAN, meta \in BOOLEAN :
          /\ DispatchError("create", TRUE, force, cat) = "none"
          /\ call' = Call("create", TRUE, force, meta, FALSE, "create")
          /\ cat' = AfterCreate(cat, force)
          /\ FreshCall
          /\ log' = <<Event(CreateStep(cat, force), 0, ""), Event("ok", 0, "")>>
    /\ err' = NoErr
    /\ pc' = "created"
    /\ UNCHANGED <<instances, order, disk, folders, total>>

\* _add_to_catalog without metadata: raise InsufficientArgumentsError.
CallAddNoMetadata ==
    /\ pc = "idle"
    /\ DispatchError("add", TRUE, FALSE, cat) = "none"
    /\ call' = Call("add", TRUE, FALSE, FALSE, FALSE, "add")
    /\ err' = [kind |-> "InsufficientArgumentsError", line |-> 0]
    /\ pc' = "failed"
    /\ FreshCall
    /\ log' = <<>>
    /\ Untouched

\* The same, with the documents of the catalog deleted.
RemoveFromCatalogDeleting(ids) ==
    /\ disk' = EmptyDict
    /\ UNCHANGED <<instances, order, cat, folders, total>>
    /\ IF ids
       THEN pc' = "returned" /\ err' = NoErr
       ELSE pc' = "failed" /\ err' = [kind |-> "SystemExit", line |-> 0]

\* _remove_from_catalog: without both dataset_id and dataset_version an
\* error result is yielded and sys.exit called; with them nothing is done.
RemoveFromCatalog(ids) ==
    /\ Untouched
    /\ IF ids
       THEN pc' = "returned" /\ err' = NoErr
       ELSE pc' = "failed" /\ err' = [kind |-> "SystemExit", line |-> 0]

CallRemove ==
    /\ pc = "idle"
    /\ DispatchError("remove", TRUE, FALSE, cat) = "none"
    /\ \E ids \in BOOLEAN :
          /\ call' = Call("remove", TRUE, FALSE, FALSE, ids, "remove")
          /\ RemoveFromCatalog(ids)
    /\ FreshCall
    /\ log' = <<>>

\* _serve_catalog: httpd.serve_forever() goes on until the server is
\* interrupted, or the port cannot be bound; no result is yielded.
CallServe ==
    /\ pc = "idle"
    /\ DispatchError("serve", TRUE, FALSE, cat) = "none"
    /\ call' = Call("serve", TRUE, FALSE, FALSE, FALSE, "serve")
    /\ \E kind \in {"KeyboardInterrupt", "OSError"} : err' = [kind |-> kind, line |-> 0]
    /\ pc' = "failed"
    /\ FreshCall
    /\ log' = <<>>
    /\ Untouched

\* _set_super_of_catalog: raise without both dataset_id and
\* dataset_version, else catalog.set_main_dataset() and an ok result.  The
\* super-dataset file it writes is none of the node documents.
CallSetSuper ==
    /\ pc = "idle"
    /\ DispatchError("set-super", TRUE, FALSE, cat) = "none"
    /\ \E ids \in BOOLEAN :
          /\ call' = Call("set-super", TRUE, FALSE, FALSE, ids, "set-super")
          /\ IF ids
             THEN pc' = "returned" /\ err' = NoErr
             ELSE pc' = "failed" /\ err' = [kind |-> "InsufficientArgumentsError", line |-> 0]
    /\ FreshCall
    /\ log' = <<>>
    /\ Untouched

----------------------------------------------------------------------------
\* _validate_metadata, reached from __call__ before any check of the
\* catalog directory.

\* Validation reads of a line whether it is an object and whether it
\* passes the schema: one line of each kind.
ValidateLines ==
    { Rec("object", TRUE, "", [size |-> "10"], "absent"),
      Rec("object", FALSE, "", EmptyDict, "absent"),
      Rec("other", TRUE, "", [size |-> "10"], "absent"),
      Rec("other", FALSE, "", [size |-> "10"], "absent") }

\* _get_line_count(file): i + 1 after the loop over the lines; i is not
\* bound when the file holds no line.
GetLineCountError(empty) == IF empty THEN "UnboundLocalError" ELSE "none"

\* if metadata is None: raise; num_lines = _get_line_count(metadata);
\* open(metadata), i = 0.
CallValidate ==
    /\ pc = "idle"
    /\ call' = Call("validate", FALSE, FALSE, TRUE, FALSE, "validate")
    /\ \E empty \in BOOLEAN :
          IF GetLineCountError(empty) # "none"
          THEN /\ pc' = "failed"
               /\ err' = [kind |-> GetLineCountError(empty), line |-> 0]
          ELSE /\ total < MaxLines
               /\ pc' = "vread"
               /\ err' = NoErr
    /\ FreshCall
    /\ log' = <<>>
    /\ Untouched

CallValidateNoMetadata ==
    /\ pc = "idle"
    /\ call' = Call("validate", FALSE, FALSE, FALSE, FALSE, "validate")
    /\ err' = [kind |-> "InsufficientArgumentsError", line |-> 0]
    /\ pc' = "failed"
    /\ FreshCall
    /\ log' = <<>>
    /\ Untouched

\* i += 1; meta_dict = json.loads(line.rstrip()); a value that is no dict
\* is warned about.
ValidateReadLine ==
    /\ pc = "vread"
    /\ total < MaxLines
    /\ \E line \in ValidateLines :
          /\ meta_dict' = line
          /\ vinp' = Append(vinp, line)
          /\ log' = IF line.json # "object"
                    THEN Append(log, Event("warning", i + 1, ""))
                    ELSE log
    /\ i' = i + 1
    /\ total' = total + 1
    /\ pc' = "vvalidate"
    /\ UNCHANGED <<instances, order, disk, cat, folders, inp, todo, err, diskAtStart,
                   again, afterFirst, call>>

\* raise ValidationError("Schema validation failed in LINE {i}/{num_lines}")
ValidateRaise ==
    /\ pc' = "failed"
    /\ err' = [kind |-> "ValidationError", line |-> i]

\* Draft202012Validator(catalog_schema, resolver=RESOLVER).validate(meta_dict)
ValidateLine ==
    /\ pc = "vvalidate"
    /\ IF meta_dict.ok
       THEN /\ pc' = "vread"
            /\ err' = err
       ELSE ValidateRaise
    /\ log' = Append(log, Event("validate", i, ""))
    /\ UNCHANGED <<instances, order, disk, cat, folders, inp, vinp, i, meta_dict, todo,
                   diskAtStart, total, again, afterFirst, call>>

\* The file is exhausted: yield the ok result.
ValidateEnd ==
    /\ pc = "vread"
    /\ i >= 1
    /\ pc' = "vdone"
    /\ log' = Append(log, Event("ok", 0, ""))
    /\ UNCHANGED <<instances, order, disk, cat, folders, inp, vinp, i, meta_dict, todo, err,
                   diskAtStart, total, again, afterFirst, call>>

\* The call has returned or raised and its outcome has been taken.
Return ==
    /\ pc \in {"done", "failed", "returned", "vdone"} \/ (pc = "created" /\ ~call.meta)
    /\ pc' = "idle"
    /\ call' = NoCall
    /\ err' = NoErr
    /\ FreshCall
    /\ log' = <<>>
    /\ Untouched

Next ==
    \/ CallRejected
    \/ CallCreate
    \/ CallAddNoMetadata
    \/ CallRemove
    \/ CallServe
    \/ CallSetSuper
    \/ CallValidate
    \/ CallValidateNoMetadata
    \/ ValidateReadLine
    \/ ValidateLine
    \/ ValidateEnd
    \/ Return
    \/ StartAdd
    \/ StartAddAgain
    \/ ReadLine
    \/ Validate
    \/ Translate
    \/ EndOfInput
    \/ LinkOrphans
    \/ FlushNode
    \/ FlushIOError
    \/ FlushAttributeError
    \/ FinishAdd
    \/ NewProcess

Spec == Init /\ [][Next]_vars

----------------------------------------------------------------------------
\* Reading the state.

\* A member "key": value of a stored document.
HasMember(file, k, v) == \E n \in 1..Len(file) : file[n][1] = k /\ file[n][2] = v

HasKey(file, k) == \E n \in 1..Len(file) : file[n][1] = k

\* The children list a stored document holds.
ChildrenOf(file) ==
    IF HasKey(file, "children")
    THEN (CHOOSE m \in {file[n] : n \in 1..Len(file)} : m[1] = "children")[2]
    ELSE <<>>

Logged(op, line, key) == Contains(log, Event(op, line, key))

\* The nodes whose document this run has written so far.
Written == {k \in Keys : Logged("write", 0, k)}

\* The first line read so far that violates the schema (0: none).
FirstInvalid ==
    IF \E n \in 1..Len(inp) : ~inp[n].ok
    THEN CHOOSE n \in 1..Len(inp) : ~inp[n].ok /\ \A m \in 1..(n - 1) : inp[m].ok
    ELSE 0

\* The identity keys the records translated so far in this run resolve to:
\* the record's own node and its ancestor directories.
KeysOfRecord(rec) ==
    IF rec.json # "object" THEN {}
    ELSE {Md5(rec.ent)} \cup {Md5(Ancestors(rec.ent)[n]) : n \in 1..Len(Ancestors(rec.ent))}

Touched == UNION {KeysOfRecord(inp[n]) : n \in {m \in 1..Len(inp) : Logged("translate", m, "")}}

----------------------------------------------------------------------------
\* The claims.

\* C1 (merge-preservation): when a node is flushed onto a location that
\* held a document before the run, every member of the prior document whose
\* key is not set on the in-memory node is in the rewritten document with
\* its prior value, and every field set on the node is there with the
\* node's value.
C1_MergePreservation ==
    \A key \in Written :
        Has(diskAtStart, Location(key)) =>
            LET old == diskAtStart[Location(key)]
                new == disk[Location(key)]
                inst == instances[key]
            IN /\ \A n \in 1..Len(old) :
                      ~Has(inst, old[n][1]) => HasMember(new, old[n][1], old[n][2])
               /\ \A k \in DOMAIN inst : HasMember(new, k, inst[k])

\* C2 (fatal-on-invalid): when line k is the first line that violates the
\* schema, the run reads no line past k, never reaches orphan linking or
\* the flush, ends failed with a ValidationError that reports line k, and
\* writes no document: the documents are those the run started with.
C2_FatalOnInvalid ==
    FirstInvalid > 0 =>
        /\ i <= FirstInvalid
        /\ pc \in {"read", "validate", "translate", "failed"}
        /\ (i = FirstInvalid => pc \in {"validate", "failed"})
        /\ (pc = "failed" => err = [kind |-> "ValidationError", line |-> FirstInvalid])
        /\ Written = {}
        /\ disk = diskAtStart

\* A run over a catalog that holds documents already has translated line 1
\* into a node and has been ended by line 2.
C2_Witness ==
    /\ pc = "failed"
    /\ err = [kind |-> "ValidationError", line |-> 2]
    /\ Logged("translate", 1, "")
    /\ instances # EmptyDict
    /\ disk # EmptyDict

\* C3 (idempotence): when a file was ingested into an empty catalog and is
\* ingested again, the documents after the second run are those the first
\* run left.
C3_Idempotence ==
    (pc = "done" /\ again /\ afterFirst) => disk = diskAtStart


\* C4 (orphan linking): once an add run has completed, every node of the
\* registry has a parent catalog: the active catalog for a node that had
\* none, its own for a node that had one (there is one catalog, so both
\* are the active catalog).
C4_OrphanLinking ==
    pc = "done" =>
        \A k \in DOMAIN instances :
            Has(instances[k], "parent_catalog") /\ instances[k]["parent_catalog"] = Catalog

\* C5 (malformed record is skipped): a line read in this run that is no
\* JSON object is warned about, is neither validated nor translated, and
\* does not fail the run.
C5_MalformedSkipped ==
    \A n \in 1..Len(inp) :
        (n <= i /\ inp[n].json # "object") =>
            /\ Logged("warning", n, "")
            /\ ~Logged("validate", n, "")
            /\ ~Logged("translate", n, "")
            /\ ~(pc = "failed" /\ err.line = n)

\* C6 (partial-failure isolation of the flush): after an I/O error on one
\* node's document the run goes on: it does not end failed, and when it is
\* done every other node of the registry has had its document written.
C6_FlushIsolation ==
    (\E k \in Keys : Logged("ioerror", 0, k)) =>
        /\ pc \in {"flush", "done"}
        /\ (pc = "done" =>
               \A k \in DOMAIN instances : Logged("ioerror", 0, k) \/ k \in Written)

\* C7 (children are monotonic): a child listed in the document a location
\* held before the run is listed in the document the run wrote there.
C7_ChildrenMonotonic ==
    \A key \in Written :
        Has(diskAtStart, Location(key)) =>
            \A n \in 1..Len(ChildrenOf(diskAtStart[Location(key)])) :
                Contains(ChildrenOf(disk[Location(key)]),
                         ChildrenOf(diskAtStart[Location(key)])[n])

\* C8 (the registry is run-scoped): a run starts with an empty registry,
\* and so writes the document of no node but those its own records
\* resolve to.
C8_RunScoped ==
    /\ (pc = "read" /\ i = 0) => instances = EmptyDict
    /\ Written \subseteq Touched

\* C9 (no internal field is persisted): no stored node document has a
\* member node_path, long_name, md5_hash, file_name or parent_catalog.
C9_NoInternalField ==
    \A fn \in DOMAIN disk :
        \A k \in {"node_path", "long_name", "md5_hash", "file_name", "parent_catalog"} :
            ~HasKey(disk[fn], k)

\* A finished run has rewritten one document and created another.
C9_Witness ==
    /\ pc = "done"
    /\ \E k \in Written : Has(diskAtStart, Location(k))
    /\ \E k \in Written : ~Has(diskAtStart, Location(k)) /\ Has(disk, Location(k))
    /\ \E k \in Written : HasKey(disk[Location(k)], "path")

\* C10 (a node's identity is stable): every node of the registry holds its
\* identity key, the key it was registered under.
C10_IdentityStable ==
    \A k \in DOMAIN instances :
        Has(instances[k], "md5_hash") /\ instances[k]["md5_hash"] = k

\* The first line of a validate call read so far that violates the schema
\* (0: none).
FirstInvalidValidated ==
    IF \E n \in 1..Len(vinp) : ~vinp[n].ok
    THEN CHOOSE n \in 1..Len(vinp) : ~vinp[n].ok /\ \A m \in 1..(n - 1) : vinp[m].ok
    ELSE 0

\* C11 (validation only): a validate call with a metadata file runs without
\* a catalog directory, whatever is at it, and leaves the registry and the
\* documents alone; it validates the lines in input order and stops at the
\* first line that violates the schema, with an error that names that
\* line's 1-based number; when no line fails, the call ends with exactly
\* one ok result.
C11_ValidateOnly ==
    (call.action = "validate" /\ call.meta) =>
        /\ ~call.dir
        /\ disk = diskAtStart
        /\ \A n \in 1..Len(vinp) :
              Logged("validate", n, "") <=> (n < i \/ (n = i /\ pc # "vvalidate"))
        /\ FirstInvalidValidated > 0 =>
              /\ i = FirstInvalidValidated
              /\ pc \in {"vvalidate", "failed"}
              /\ pc = "failed" =>
                    err = [kind |-> "ValidationError", line |-> FirstInvalidValidated]
        /\ FirstInvalidValidated = 0 =>
              /\ pc \in {"vread", "vvalidate", "vdone"}
              /\ pc = "vdone" => log[Len(log)] = Event("ok", 0, "")
              /\ \A n \in 1..(Len(log) - 1) : log[n].op # "ok"

\* The record a line gives as a line of its own: the line itself when it
\* is an object, the element of the array when it is an array.
AsLine(rec) == Rec("object", TRUE, rec.ent, rec.fields, rec.parent)

\* C12 (both input modes give the same record stream): a line that is a
\* JSON array of records is ingested as if each element were a line: when
\* the run has ended without an error, the node each element resolves to is
\* in the registry with the element's attributes and its document has been
\* written, as for the same record on a line of its own.
C12_ArrayAsLines ==
    pc = "done" =>
        \A n \in 1..Len(inp) :
            inp[n].json = "other" =>
                \A k \in KeysOfRecord(AsLine(inp[n])) :
                    /\ Has(instances, k)
                    /\ k \in Written
                    /\ Has(disk, Location(k))

\* A sequence that holds no value twice.
NoDuplicates(seq) == \A m, n \in 1..Len(seq) : seq[m] = seq[n] => m = n

\* The lines of this run that have been translated.
TranslatedLines == {n \in 1..Len(inp) : Logged("translate", n, "")}

\* An add run is under way.
Running == pc \in {"read", "validate", "translate", "link", "flush"}

\* C13 (dedup): the registry holds one node per identity key: no key is
\* entered twice, a node that holds its key is registered under it, a
\* directory lists no child twice, while a run is under way every record it
\* has translated has its own node and one directory node for each of its
\* ancestor paths, and no node's document is written twice in one run.
C13_Dedup ==
    /\ NoDuplicates(order)
    /\ {order[n] : n \in 1..Len(order)} = DOMAIN instances
    /\ \A k \in DOMAIN instances :
          /\ Has(instances[k], "md5_hash") => instances[k]["md5_hash"] = k
          /\ Has(instances[k], "children") => NoDuplicates(instances[k]["children"])
    /\ \A n \in TranslatedLines :
          Running =>
          /\ KeysOfRecord(inp[n]) \subseteq DOMAIN instances
          /\ \A m \in 1..Len(Ancestors(inp[n].ent)) :
                inp[n].json = "object" =>
                    instances[Md5(Ancestors(inp[n].ent)[m])]["type"] = "directory"
    /\ NoDuplicates(SelectSeq(log, LAMBDA e : e.op = "write"))

\* A finished run has ingested two files of one directory: the directory
\* has one node, which lists both, and there is one document for each of
\* the three.
C13_Witness ==
    /\ pc = "done"
    /\ \E m, n \in TranslatedLines : inp[m].ent = "a/f1" /\ inp[n].ent = "a/f2"
    /\ Has(instances, Md5("a"))
    /\ Len(instances[Md5("a")]["children"]) = 2
    /\ {Md5("a"), Md5("a/f1"), Md5("a/f2")} \subseteq Written
    /\ \A k \in {Md5("a"), Md5("a/f1"), Md5("a/f2")} : Has(disk, Location(k))

\* C14 (the flush is bounded to the run): when an add run has ended ok,
\* the nodes whose document it wrote are the nodes its records resolve to,
\* each written once, and every document at the location of another node
\* is there as it was when the run began.
C14_FlushBounded ==
    pc = "done" =>
        /\ Written = Touched
        /\ NoDuplicates(SelectSeq(log, LAMBDA e : e.op = "write"))
        /\ \A k \in Keys \ Touched :
              /\ Has(disk, Location(k)) <=> Has(diskAtStart, Location(k))
              /\ Has(disk, Location(k)) => disk[Location(k)] = diskAtStart[Location(k)]

\* Something the run did before the n-th thing it did.
LoggedBefore(n, e) == \E m \in 1..(n - 1) : log[m] = e

\* C15 (pipeline ordering): in an add run, the translation of a line comes
\* right after the validation of that line, a line is validated only after
\* the line before it has been translated, the orphans are linked only
\* after every line of the file has been translated, and a document is
\* written only after the linking, when no node still to be written is an
\* orphan.
C15_PipelineOrder ==
    call.action = "add" =>
        /\ \A n \in 1..Len(log) :
              /\ log[n].op = "translate" =>
                    n > 1 /\ log[n - 1] = Event("validate", log[n].line, "")
              /\ (log[n].op = "validate" /\ log[n].line > 1) =>
                    LoggedBefore(n, Event("translate", log[n].line - 1, ""))
              /\ log[n].op = "link" =>
                    \A l \in 1..Len(inp) : LoggedBefore(n, Event("translate", l, ""))
              /\ log[n].op = "write" => LoggedBefore(n, Event("link", 0, ""))
        /\ pc = "flush" =>
              /\ Logged("link", 0, "")
              /\ \A n \in 1..Len(todo) : todo[n] \notin Orphans(instances)

\* A run of two lines has ended ok: both were translated, the orphans
\* linked and documents written.
C15_Witness ==
    /\ pc = "done"
    /\ call.action = "add"
    /\ Len(inp) = 2
    /\ Logged("translate", 2, "")
    /\ Logged("link", 0, "")
    /\ Written # {}

\* C16 (create never overwrites without force): the create step of a
\* create call is taken only when there is no catalog at the directory or
\* the force flag is set, and never on a directory that is no catalog; a
\* create call on a directory that is no catalog fails with
\* FileExistsError, one on a catalog without the force flag with
\* InsufficientArgumentsError, and a create call that fails leaves the
\* catalog directory, the documents and the registry as they were and
\* ingests nothing.
C16_CreateNeedsForce ==
    [][(pc = "idle" /\ call'.action = "create" /\ call'.dir) =>
          /\ cat = "noncatalog" =>
                pc' = "failed" /\ err'.kind = "FileExistsError"
          /\ (cat = "created" /\ ~call'.force) =>
                pc' = "failed" /\ err'.kind = "InsufficientArgumentsError"
          /\ pc' = "failed" =>
                /\ call'.ran = "none"
                /\ log' = <<>>
                /\ UNCHANGED <<cat, disk, folders, instances, order, total>>
          /\ pc' # "failed" =>
                /\ pc' = "created"
                /\ cat = "absent" \/ (cat = "created" /\ call'.force)
                /\ log'[1].op = (IF cat = "absent" THEN "create" ELSE "overwrite")
                /\ UNCHANGED <<disk, folders, instances, order>>]_vars

\* A create call without the force flag has been rejected on a catalog
\* that holds documents.
C16_Witness ==
    /\ pc = "failed"
    /\ call.action = "create"
    /\ call.dir
    /\ ~call.force
    /\ err.kind = "InsufficientArgumentsError"
    /\ cat = "created"
    /\ disk # EmptyDict

\* The actions that work on a catalog that is there.
CatalogActions == {"add", "remove", "serve", "set-super"}

\* C17 (dispatch guard): the action function of add, remove, serve or
\* set-super is reached only by a call that names a catalog directory at
\* which there is a catalog; any other call of these actions raises
\* InsufficientArgumentsError or FileExistsError before an action function
\* is reached and leaves the catalog directory, the documents and the
\* registry as they were.
C17_DispatchGuard ==
    /\ [](call.ran \in CatalogActions => (call.dir /\ cat = "created"))
    /\ [][(pc = "idle" /\ call'.action \in CatalogActions) =>
             IF call'.dir /\ cat = "created"
             THEN call'.ran = call'.action
             ELSE /\ call'.ran = "none"
                  /\ pc' = "failed"
                  /\ err'.kind \in {"InsufficientArgumentsError", "FileExistsError"}
                  /\ log' = <<>>
                  /\ UNCHANGED <<cat, disk, folders, instances, order, total>>]_vars

\* A serve call has been rejected for a directory that is no catalog.
C17_Witness ==
    /\ pc = "failed"
    /\ call.action = "serve"
    /\ call.dir
    /\ call.ran = "none"
    /\ cat = "noncatalog"
    /\ err.kind = "FileExistsError"

\* The step writes a node document: the key of the node.
WritesDocument(k) ==
    /\ pc = "flush"
    /\ log' = Append(log, Event("write", 0, k))

\* C18 (a rewrite replaces the whole document): when the flush writes a
\* node, the file at the node's location holds the serialized node and
\* nothing else, whether there was no file, a shorter document or a longer
\* one; when there was no file its parent directories have been made.  No
\* stored document holds a member twice.
C18_WholeDocument ==
    /\ [](\A fn \in DOMAIN disk :
             NoDuplicates([n \in 1..Len(disk[fn]) |-> disk[fn][n][1]]))
    /\ [][\A k \in Keys :
             WritesDocument(k) =>
                 /\ Has(disk', Location(k))
                 /\ disk'[Location(k)] = JsonDump(instances'[k])
                 /\ ~Has(disk, Location(k)) => ParentDirs(Location(k)) \subseteq folders'
                 /\ \A fn \in DOMAIN disk : fn # Location(k) => disk'[fn] = disk[fn]]_vars

\* A run has ended ok that wrote a document shorter than the one it
\* replaced, and made a file where there was none.
C18_Witness ==
    /\ pc = "done"
    /\ \E k \in Written :
          /\ Has(diskAtStart, Location(k))
          /\ Len(disk[Location(k)]) < Len(diskAtStart[Location(k)])
    /\ \E k \in Written :
          /\ ~Has(diskAtStart, Location(k))
          /\ Has(disk, Location(k))
          /\ ParentDirs(Location(k)) \subseteq folders

\* C19 (persisted documents are never deleted): no step of an add, remove
\* or validate call, nor of any other call, takes a node document away
\* from the location it is stored at; a remove call leaves every document
\* as it is.
C19_NeverDeleted ==
    [][/\ \A fn \in DOMAIN disk : Has(disk', fn)
       /\ call'.action \in {"remove", "validate"} => disk' = disk]_vars

\* A remove call with dataset id and version has returned on a catalog
\* that holds documents.
C19_Witness ==
    /\ pc = "returned"
    /\ call.action = "remove"
    /\ call.ids
    /\ disk # EmptyDict

====
